---- MODULE Spec2Model ----
(***************************************************************************)
(* Model of djangobulk/bulk.py: bulk insert, update and insert-or-update   *)
(* of Django model objects through one database connection.                *)
(*                                                                         *)
(* The model class has the fields id (AutoField, primary key), email and   *)
(* name.  The table is a sequence of rows; the auto id of a row is its     *)
(* position.  A call logs, in order, every presave() invocation, every     *)
(* value extraction, every statement handed to the cursor and every        *)
(* commit, so that the order of a handler's steps can be stated.           *)
(***************************************************************************)
EXTENDS Integers, Sequences, FiniteSets, TLC

\* ------------------------------------------------------------------ bounds
MaxBatch == 2
MaxRows == 2

\* ------------------------------------------------------------ input domains
RecIds == {2}
Emails == {"a", "b"}
Names == {"x", "y"}
Objects == [id : RecIds, email : Emails, name : Names]
KeyChoices == {{}, {"email"}, {"name"}, {"email", "name"}, {"id", "email"}, {"bogus"}}

RECURSIVE SeqsUpTo(_, _)
SeqsUpTo(S, n) ==
    IF n = 0 THEN {<<>>}
    ELSE LET shorter == SeqsUpTo(S, n - 1)
         IN  shorter \cup {Append(s, x) : s \in {t \in shorter : Len(t) = n - 1}, x \in S}

Batches == SeqsUpTo(Objects, MaxBatch)

\* ------------------------------------------------------------------ schema
Fields == <<"id", "email", "name">>
AutoFields == {"id"}
PkName == "id"

\* _model_fields: the fields that are no AutoField, in declaration order
_model_fields == SelectSeq(Fields, LAMBDA f : f \notin AutoFields)

\* keys = keys or [model._meta.pk.name]
ResolveKeys(keys) == IF keys = {} THEN {PkName} ELSE keys

\* key_fields = [f for f in model._meta.fields if f.name in keys]
key_fields(keys) == SelectSeq(Fields, LAMBDA f : f \in ResolveKeys(keys))

\* value_fields = [f for f in _model_fields(model) if f.name not in keys]
value_fields(keys) == SelectSeq(_model_fields, LAMBDA f : f \notin ResolveKeys(keys))

VARIABLES
    rows,        \* the table as this connection sees it
    committed,   \* the table as committed
    managed,     \* TRUE: the connection is inside a caller-managed transaction
    unique,      \* TRUE: the table has a unique constraint on the email column
    hasPresave,  \* TRUE: the model class defines a callable presave
    op,          \* the public function of the call that just ended, or "none"
    batch,       \* its objects
    keys,        \* its keys argument ({} is None)
    skip,        \* its skip_update argument
    trace,       \* what the call did, in order
    outcome,     \* "ok", "AssertionError" or "DatabaseError"
    pre,         \* rows when the call started
    rep,         \* TRUE: the call repeats the call before it
    procs        \* the concurrent callers of insert_or_update_many, if any

vars == <<rows, committed, managed, unique, hasPresave, op, batch, keys, skip,
          trace, outcome, pre, rep, procs>>

\* ------------------------------------------------------------------ events
Ev(e, i, k, ps) == [ev |-> e, obj |-> i, kind |-> k, params |-> ps]

\* f.get_db_prep_save(f.pre_save(obj, True), connection=con) of an integer or
\* character field: the value itself
DbPrep(v) == v

\* _prep_values: the tuple of the prepared values of obj, in the order of fields
_prep_values(fields, o) == [j \in 1..Len(fields) |-> DbPrep(o[fields[j]])]

\* a _prep_values that never calls presave()
PrepEventsNoHook(hook, i) == <<Ev("extract", i, "", <<>>)>>

\* _prep_values: presave() when the object has one, then the extraction
PrepEvents(hook, i) ==
    (IF hook THEN <<Ev("presave", i, "", <<>>)>> ELSE <<>>)
        \o <<Ev("extract", i, "", <<>>)>>

RECURSIVE PrepAll(_, _)
PrepAll(hook, idxs) ==
    IF idxs = <<>> THEN <<>>
    ELSE PrepEvents(hook, Head(idxs)) \o PrepAll(hook, Tail(idxs))


\* ------------------------------------------------------------------- store
\* The database behind the connection: a table with an auto-increment id and,
\* when unique holds, a unique constraint on email.  A failing statement
\* raises DatabaseError.

FieldSet == {Fields[j] : j \in 1..Len(Fields)}
IndexOf(seq, x) == CHOOSE j \in 1..Len(seq) : seq[j] = x
InSeq(seq, x) == \E j \in 1..Len(seq) : seq[j] = x
Indices(s) == [j \in 1..Len(s) |-> j]

RECURSIVE Reverse(_)
Reverse(s) == IF s = <<>> THEN <<>> ELSE Append(Reverse(Tail(s)), Head(s))

UniqueOk(rs) == \A i, j \in 1..Len(rs) : i # j => rs[i].email # rs[j].email

\* the values of the columns cols of a row, as fetchall returns them
RowTuple(row, cols) == [j \in 1..Len(cols) |-> row[cols[j]]]

\* INSERT INTO t (cols) VALUES (p): the id is generated by the table
StoreInsertOne(rs, cols, p) ==
    Append(rs, [f \in FieldSet |->
                  IF InSeq(cols, f) THEN p[IndexOf(cols, f)] ELSE Len(rs) + 1])

\* UPDATE t SET setCols = ... WHERE whereCols = ...: p holds the SET values,
\* then the WHERE values
StoreUpdateOne(rs, setCols, whereCols, p) ==
    [i \in 1..Len(rs) |->
        IF \A j \in 1..Len(whereCols) : rs[i][whereCols[j]] = p[Len(setCols) + j]
        THEN [f \in FieldSet |->
                IF InSeq(setCols, f) THEN p[IndexOf(setCols, f)] ELSE rs[i][f]]
        ELSE rs[i]]

\* cursor.executemany(sql, parameters): the statement once per parameter
\* tuple, in order; the first failure ends it
RECURSIVE executemany(_, _, _, _)
executemany(st, uq, sql, params) ==
    IF st.err \/ params = <<>> THEN st
    ELSE LET p  == Head(params)
             rs == IF sql.kind = "INSERT"
                   THEN StoreInsertOne(st.rows, sql.cols, p)
                   ELSE StoreUpdateOne(st.rows, sql.cols, sql.where, p)
             bad == \/ (sql.kind = "UPDATE" /\ sql.cols = <<>>)  \* "SET  WHERE": syntax error
                    \/ (uq /\ ~UniqueOk(rs))
         IN  IF bad THEN [rows |-> st.rows, err |-> TRUE]
             ELSE executemany([rows |-> rs, err |-> FALSE], uq, sql, Tail(params))

\* SELECT cols FROM t WHERE (cols) IN (tuples); set(cursor.fetchall())
SelectExisting(rs, cols, tuples) ==
    {RowTuple(rs[i], cols) : i \in {j \in 1..Len(rs) :
        \E t \in 1..Len(tuples) : RowTuple(rs[j], cols) = tuples[t]}}

\* ---------------------------------------------------------------- handlers
\* A handler takes and returns the connection: the table as the connection
\* sees it, the committed table, whether a caller-managed transaction is open,
\* whether the table has the unique constraint, the log and the outcome so far.

Ctx(rs, cm, mg, uq) ==
    [rows |-> rs, committed |-> cm, managed |-> mg, unique |-> uq,
     trace |-> <<>>, outcome |-> "ok"]

Log(c, evs) == [c EXCEPT !.trace = c.trace \o evs]

Continue(c, next) == IF c.outcome = "ok" THEN next ELSE c

\* con.cursor().executemany(sql, parameters), logged
Run(c, sql, params) ==
    LET st == executemany([rows |-> c.rows, err |-> FALSE], c.unique, sql, params)
        c1 == Log(c, <<Ev("executemany", 0, sql.kind, params)>>)
    IN  IF st.err THEN [c1 EXCEPT !.outcome = "DatabaseError"]
        ELSE [c1 EXCEPT !.rows = st.rows]

\* transaction.commit_unless_managed(using)
commit_unless_managed(c) ==
    IF c.managed THEN c
    ELSE [Log(c, <<Ev("commit", 0, "", <<>>)>>) EXCEPT !.committed = c.rows]

\* _filter_objects: the scan of the generator, latest first; each step
\* prepares the key of one object and yields the object unless the key was seen
RECURSIVE FilterSteps(_, _, _, _)
FilterSteps(b, kf, scan, keyset) ==
    IF scan = <<>> THEN <<>>
    ELSE LET i     == Head(scan)
             okeys == _prep_values(kf, b[i])
         IN  IF okeys \in keyset
             THEN <<[idx |-> i, keyprep |-> TRUE, yield |-> FALSE]>>
                      \o FilterSteps(b, kf, Tail(scan), keyset)
             ELSE <<[idx |-> i, keyprep |-> TRUE, yield |-> TRUE]>>
                      \o FilterSteps(b, kf, Tail(scan), keyset \cup {okeys})

\* a _filter_objects that scans the objects in order: the earliest wins
_filter_objects_first_wins(b, kf, idxs) == FilterSteps(b, kf, idxs, {})

_filter_objects(b, kf, idxs) == FilterSteps(b, kf, Reverse(idxs), {})

\* a list passed as objects: every element is yielded, nothing else happens
ListSteps(idxs) ==
    [j \in 1..Len(idxs) |-> [idx |-> idxs[j], keyprep |-> FALSE, yield |-> TRUE]]

\* the objects an iterable yields, in order
Yielded(steps) ==
    LET ys == SelectSeq(steps, LAMBDA s : s.yield)
    IN  [j \in 1..Len(ys) |-> ys[j].idx]

\* parameters = [_prep_values(fields, o, con) for o in objects]: what the
\* comprehension logs while it draws from the iterable
RECURSIVE DrawEvents(_, _)
DrawEvents(hook, steps) ==
    IF steps = <<>> THEN <<>>
    ELSE LET s == Head(steps)
         IN  (IF s.keyprep THEN PrepEvents(hook, s.idx) ELSE <<>>)
                 \o (IF s.yield THEN PrepEvents(hook, s.idx) ELSE <<>>)
                 \o DrawEvents(hook, Tail(steps))

\* an _insert_many that loses the first object it is given
_insert_many_skips_first(c, hook, b, truthy, steps) ==
    IF ~truthy THEN c
    ELSE LET objs   == Yielded(steps)
             params == [j \in 1..(Len(objs) - 1) |-> _prep_values(_model_fields, b[objs[j + 1]])]
             sql    == [kind |-> "INSERT", cols |-> _model_fields, where |-> <<>>]
         IN  Run(Log(c, DrawEvents(hook, steps)), sql, params)

\* _insert_many(model, objects): truthy is bool(objects), steps what iterating
\* objects does
_insert_many(c, hook, b, truthy, steps) ==
    IF ~truthy THEN c
    ELSE LET objs   == Yielded(steps)
             params == [j \in 1..Len(objs) |-> _prep_values(_model_fields, b[objs[j]])]
             sql    == [kind |-> "INSERT", cols |-> _model_fields, where |-> <<>>]
         IN  Run(Log(c, DrawEvents(hook, steps)), sql, params)

\* an _update_many whose statement has no WHERE clause
_update_many_no_where(c, hook, b, idxs, ks) ==
    IF idxs = <<>> THEN c
    ELSE IF key_fields(ks) = <<>> THEN [c EXCEPT !.outcome = "AssertionError"]
    ELSE LET pf     == value_fields(ks) \o key_fields(ks)
             params == [j \in 1..Len(idxs) |-> _prep_values(pf, b[idxs[j]])]
             sql    == [kind |-> "UPDATE", cols |-> value_fields(ks), where |-> <<>>]
         IN  Run(Log(c, PrepAll(hook, idxs)), sql, params)

\* an _update_many without the early return on no objects
_update_many_no_guard(c, hook, b, idxs, ks) ==
    IF key_fields(ks) = <<>> THEN [c EXCEPT !.outcome = "AssertionError"]
    ELSE LET pf     == value_fields(ks) \o key_fields(ks)
             params == [j \in 1..Len(idxs) |-> _prep_values(pf, b[idxs[j]])]
             sql    == [kind |-> "UPDATE", cols |-> value_fields(ks),
                        where |-> key_fields(ks)]
         IN  Run(Log(c, PrepAll(hook, idxs)), sql, params)

\* _update_many(model, objects, keys): objects is a list
_update_many(c, hook, b, idxs, ks) ==
    IF idxs = <<>> THEN c
    ELSE IF key_fields(ks) = <<>> THEN [c EXCEPT !.outcome = "AssertionError"]
    ELSE LET pf     == value_fields(ks) \o key_fields(ks)
             params == [j \in 1..Len(idxs) |-> _prep_values(pf, b[idxs[j]])]
             sql    == [kind |-> "UPDATE", cols |-> value_fields(ks),
                        where |-> key_fields(ks)]
         IN  Run(Log(c, PrepAll(hook, idxs)), sql, params)

\* insert_many(model, objects)
insert_many(c, hook, b) ==
    LET c1 == _insert_many(c, hook, b, b # <<>>, ListSteps(Indices(b)))
    IN  Continue(c1, commit_unless_managed(c1))

\* update_many(model, objects, keys)
update_many(c, hook, b, idxs, ks) ==
    LET c1 == _update_many(c, hook, b, idxs, ks)
    IN  Continue(c1, commit_unless_managed(c1))

\* object_keys: the key tuple of every object, as line 146 prepares it
object_keys(b, ks) == [j \in 1..Len(b) |-> _prep_values(key_fields(ks), b[j])]

\* update_objects = [o for (o, k) in object_keys if k in existing]
update_objects(b, ks, existing) ==
    SelectSeq(Indices(b), LAMBDA i : object_keys(b, ks)[i] \in existing)

\* an insert_objects that keeps every object
insert_objects_all(b, ks, existing) == Indices(b)

\* insert_objects = [o for (o, k) in object_keys if k not in existing]
insert_objects(b, ks, existing) ==
    SelectSeq(Indices(b), LAMBDA i : object_keys(b, ks)[i] \notin existing)

\* an insert_or_update_many that updates through update_many, which commits
insert_or_update_many_commits_twice(c, hook, b, ks, sk) ==
    IF b = <<>> THEN c
    ELSE IF key_fields(ks) = <<>> THEN [c EXCEPT !.outcome = "AssertionError"]
    ELSE LET existing == SelectExisting(c.rows, key_fields(ks), object_keys(b, ks))
             c1 == Log(c, PrepAll(hook, Indices(b))
                          \o <<Ev("execute", 0, "SELECT", object_keys(b, ks))>>)
             c2 == IF sk THEN c1
                   ELSE update_many(c1, hook, b, update_objects(b, ks, existing), ks)
             c3 == Continue(c2, _insert_many(c2, hook, b, TRUE,
                       _filter_objects(b, key_fields(ks), insert_objects(b, ks, existing))))
         IN  Continue(c3, commit_unless_managed(c3))

\* insert_or_update_many(model, objects, keys, using, skip_update)
insert_or_update_many(c, hook, b, ks, sk) ==
    IF b = <<>> THEN c
    ELSE IF key_fields(ks) = <<>> THEN [c EXCEPT !.outcome = "AssertionError"]
    ELSE LET existing == SelectExisting(c.rows, key_fields(ks), object_keys(b, ks))
             c1 == Log(c, PrepAll(hook, Indices(b))
                          \o <<Ev("execute", 0, "SELECT", object_keys(b, ks))>>)
             c2 == IF sk THEN c1
                   ELSE _update_many(c1, hook, b, update_objects(b, ks, existing), ks)
             c3 == Continue(c2, _insert_many(c2, hook, b, TRUE,
                       _filter_objects(b, key_fields(ks), insert_objects(b, ks, existing))))
         IN  Continue(c3, commit_unless_managed(c3))

\* ----------------------------------------------------------------- actions
\* The state a call leaves.  A call that raises DatabaseError leaves nothing
\* of its own behind: what it did without committing is rolled back.
Finish(name, b, ks, sk, c, again) ==
    /\ Len(c.rows) <= MaxRows
    /\ rows' = IF c.outcome = "DatabaseError" THEN rows ELSE c.rows
    /\ committed' = c.committed
    /\ op' = name
    /\ batch' = b
    /\ keys' = ks
    /\ skip' = sk
    /\ trace' = c.trace
    /\ outcome' = c.outcome
    /\ pre' = rows
    /\ rep' = again
    /\ UNCHANGED <<managed, unique, hasPresave, procs>>

Idle == op = "none"
Conn == Ctx(rows, committed, managed, unique)

InsertMany ==
    /\ Idle
    /\ \E b \in Batches :
        Finish("insert_many", b, {}, FALSE, insert_many(Conn, hasPresave, b), FALSE)

UpdateMany ==
    /\ Idle
    /\ \E b \in Batches, ks \in KeyChoices :
        Finish("update_many", b, ks, FALSE, update_many(Conn, hasPresave, b, Indices(b), ks), FALSE)

InsertOrUpdateMany ==
    /\ Idle
    /\ \E b \in Batches, ks \in KeyChoices, sk \in BOOLEAN :
        Finish("insert_or_update_many", b, ks, sk,
               insert_or_update_many(Conn, hasPresave, b, ks, sk), FALSE)

\* the caller makes the call it just made once more: same objects, keys and
\* skip_update
InsertOrUpdateManyAgain ==
    /\ op = "insert_or_update_many"
    /\ outcome = "ok"
    /\ ~rep
    /\ Finish("insert_or_update_many", batch, keys, skip,
              insert_or_update_many(Conn, hasPresave, batch, keys, skip), TRUE)

\* the call has returned or raised; the caller goes on
Return ==
    /\ ~Idle
    /\ op' = "none"
    /\ batch' = <<>>
    /\ keys' = {}
    /\ skip' = FALSE
    /\ trace' = <<>>
    /\ outcome' = "ok"
    /\ pre' = <<>>
    /\ rep' = FALSE
    /\ UNCHANGED <<rows, committed, managed, unique, hasPresave, procs>>

Init ==
    /\ rows = <<>>
    /\ committed = <<>>
    /\ managed \in BOOLEAN
    /\ unique \in BOOLEAN
    /\ hasPresave \in BOOLEAN
    /\ op = "none"
    /\ batch = <<>>
    /\ keys = {}
    /\ skip = FALSE
    /\ trace = <<>>
    /\ outcome = "ok"
    /\ pre = <<>>
    /\ rep = FALSE
    /\ procs = <<>>

Next ==
    \/ InsertMany
    \/ UpdateMany
    \/ InsertOrUpdateMany
    \/ InsertOrUpdateManyAgain
    \/ Return

Spec == Init /\ [][Next]_vars

\* ------------------------------------------------------ concurrent callers
\* Two callers run insert_or_update_many(model, objects, keys=["email"]) at
\* the same time, each on its own connection outside a caller-managed
\* transaction, against a table with the unique constraint on email.  A
\* connection reads the committed table and its own uncommitted work; an
\* UPDATE waits for another connection's uncommitted change of the same row, an
\* INSERT for another connection's uncommitted row with the same email.  A step
\* is one round trip: the SELECT, one parameter tuple of an executemany, the
\* commit.
Procs == {1, 2}
RaceKeys == {"email"}
RaceObjects(p) ==
    {[id |-> 2, email |-> e, name |-> IF p = 1 THEN "x" ELSE "y"] : e \in Emails}
RaceBatches(p) == SeqsUpTo(RaceObjects(p), MaxBatch) \ {<<>>}
RaceTables == {<<>>, <<[id |-> 1, email |-> "a", name |-> "x"]>>}

InitRace ==
    /\ rows = <<>>
    /\ committed \in RaceTables
    /\ managed = FALSE
    /\ unique = TRUE
    /\ hasPresave = FALSE
    /\ op = "none"
    /\ batch = <<>>
    /\ keys = {}
    /\ skip = FALSE
    /\ trace = <<>>
    /\ outcome = "ok"
    /\ pre = <<>>
    /\ rep = FALSE
    /\ \E b1 \in RaceBatches(1), b2 \in RaceBatches(2) :
          procs = [p \in Procs |->
                     [pc |-> "select", batch |-> IF p = 1 THEN b1 ELSE b2,
                      upd |-> <<>>, ins |-> <<>>, k |-> 1,
                      pu |-> {}, pi |-> <<>>,
                      outcome |-> "running", hit |-> FALSE, sent |-> 0, sentAtHit |-> 0]]

Other(p) == CHOOSE q \in Procs : q # p
Locked(q) == {v.id : v \in procs[q].pu}
\* the table as connection p sees it, without its own uncommitted inserts
View(p) ==
    [r \in 1..Len(committed) |->
        IF r \in Locked(p) THEN CHOOSE v \in procs[p].pu : v.id = r ELSE committed[r]]
EmailOf(t) == t[IndexOf(_model_fields, "email")]
RaceFrame == UNCHANGED <<rows, managed, unique, hasPresave, op, batch, keys, skip,
                         trace, outcome, pre, rep>>

\* lines 146-171: the key tuples, the SELECT, update_objects, insert_objects
\* and the deduplicated objects to insert
RaceSelect(p) ==
    LET me       == procs[p]
        b        == me.batch
        existing == SelectExisting(View(p), key_fields(RaceKeys), object_keys(b, RaceKeys))
        uo       == update_objects(b, RaceKeys, existing)
        io       == Yielded(_filter_objects(b, key_fields(RaceKeys),
                                          insert_objects(b, RaceKeys, existing)))
        pf       == value_fields(RaceKeys) \o key_fields(RaceKeys)
    IN  /\ me.pc = "select"
        /\ procs' = [procs EXCEPT ![p] =
              [me EXCEPT !.pc = "update",
                         !.upd = [j \in 1..Len(uo) |-> _prep_values(pf, b[uo[j]])],
                         !.ins = [j \in 1..Len(io) |-> _prep_values(_model_fields, b[io[j]])],
                         !.k = 1,
                         !.sent = me.sent + 1]]
        /\ UNCHANGED committed
        /\ RaceFrame

\* _update_many, line 85: the next parameter tuple of the UPDATE
RaceUpdate(p) ==
    LET me   == procs[p]
        vf   == value_fields(RaceKeys)
        kf   == key_fields(RaceKeys)
    IN  /\ me.pc = "update"
        /\ IF me.k > Len(me.upd)
           THEN procs' = [procs EXCEPT ![p] = [me EXCEPT !.pc = "insert", !.k = 1]]
           ELSE LET t     == me.upd[me.k]
                    hitRows == {r \in 1..Len(committed) :
                                 \A j \in 1..Len(kf) : View(p)[r][kf[j]] = t[Len(vf) + j]}
                    after == StoreUpdateOne(View(p), vf, kf, t)
                IN  /\ hitRows \cap Locked(Other(p)) = {}
                    /\ procs' = [procs EXCEPT ![p] =
                          [me EXCEPT !.pu = {after[r] : r \in hitRows \cup Locked(p)},
                                     !.k = me.k + 1,
                                     !.sent = me.sent + 1]]
        /\ UNCHANGED committed
        /\ RaceFrame

\* an insert that answers a constraint violation by updating the row instead
RaceInsertFallsBack(p) ==
    LET me == procs[p]
    IN  /\ me.pc = "insert"
        /\ IF me.k > Len(me.ins)
           THEN procs' = [procs EXCEPT ![p] = [me EXCEPT !.pc = "commit"]]
           ELSE LET t     == me.ins[me.k]
                    taken == \/ \E r \in 1..Len(committed) : committed[r].email = EmailOf(t)
                             \/ \E j \in 1..Len(me.pi) : EmailOf(me.pi[j]) = EmailOf(t)
                    other == procs[Other(p)].pi
                IN  /\ taken \/ \A j \in 1..Len(other) : EmailOf(other[j]) # EmailOf(t)
                    /\ procs' = [procs EXCEPT ![p] =
                          IF taken
                          THEN [me EXCEPT !.hit = TRUE,
                                          !.k = me.k + 1,
                                          !.sent = me.sent + 2,
                                          !.sentAtHit = me.sent + 1]
                          ELSE [me EXCEPT !.pi = Append(me.pi, t),
                                          !.k = me.k + 1,
                                          !.sent = me.sent + 1]]
        /\ UNCHANGED committed
        /\ RaceFrame

\* _insert_many, line 38: the next parameter tuple of the INSERT.  A row with
\* the same email, committed or the connection's own, is a constraint
\* violation: executemany raises, nothing catches it, and the call ends.
RaceInsert(p) ==
    LET me == procs[p]
    IN  /\ me.pc = "insert"
        /\ IF me.k > Len(me.ins)
           THEN procs' = [procs EXCEPT ![p] = [me EXCEPT !.pc = "commit"]]
           ELSE LET t     == me.ins[me.k]
                    taken == \/ \E r \in 1..Len(committed) : committed[r].email = EmailOf(t)
                             \/ \E j \in 1..Len(me.pi) : EmailOf(me.pi[j]) = EmailOf(t)
                    other == procs[Other(p)].pi
                IN  /\ taken \/ \A j \in 1..Len(other) : EmailOf(other[j]) # EmailOf(t)
                    /\ procs' = [procs EXCEPT ![p] =
                          IF taken
                          THEN [me EXCEPT !.pc = "failed", !.outcome = "DatabaseError",
                                          !.pu = {}, !.pi = <<>>,
                                          !.hit = TRUE,
                                          !.sent = me.sent + 1,
                                          !.sentAtHit = me.sent + 1]
                          ELSE [me EXCEPT !.pi = Append(me.pi, t),
                                          !.k = me.k + 1,
                                          !.sent = me.sent + 1]]
        /\ UNCHANGED committed
        /\ RaceFrame

\* line 174: transaction.commit_unless_managed, outside a managed transaction
RaceCommit(p) ==
    LET me  == procs[p]
        sql == [kind |-> "INSERT", cols |-> _model_fields, where |-> <<>>]
    IN  /\ me.pc = "commit"
        /\ committed' = executemany([rows |-> View(p), err |-> FALSE], FALSE, sql, me.pi).rows
        /\ procs' = [procs EXCEPT ![p] =
              [me EXCEPT !.pc = "done", !.outcome = "ok", !.pu = {}, !.pi = <<>>,
                         !.sent = me.sent + 1]]
        /\ RaceFrame

\* p waits for a row of q
Waits(p, q) ==
    LET me == procs[p]
    IN  \/ /\ me.pc = "insert"
           /\ me.k <= Len(me.ins)
           /\ \A r \in 1..Len(committed) : committed[r].email # EmailOf(me.ins[me.k])
           /\ \E j \in 1..Len(procs[q].pi) : EmailOf(procs[q].pi[j]) = EmailOf(me.ins[me.k])
        \/ /\ me.pc = "update"
           /\ me.k <= Len(me.upd)
           /\ \E r \in Locked(q) :
                 \A j \in 1..Len(key_fields(RaceKeys)) :
                     View(p)[r][key_fields(RaceKeys)[j]]
                         = me.upd[me.k][Len(value_fields(RaceKeys)) + j]

\* the database breaks a deadlock: the statement of one of the two waiting
\* connections fails, and its call ends with the error
RaceDeadlock(p) ==
    /\ Waits(p, Other(p))
    /\ Waits(Other(p), p)
    /\ procs' = [procs EXCEPT ![p] =
          [@ EXCEPT !.pc = "failed", !.outcome = "DatabaseError", !.pu = {}, !.pi = <<>>,
                    !.sent = @ + 1]]
    /\ UNCHANGED committed
    /\ RaceFrame

NextRace ==
    \E p \in Procs :
        \/ RaceSelect(p)
        \/ RaceUpdate(p)
        \/ RaceInsert(p)
        \/ RaceCommit(p)
        \/ RaceDeadlock(p)

SpecRace == InitRace /\ [][NextRace]_vars

\* ------------------------------------------------------- reading the log
IsStmt(e) == e.ev \in {"execute", "executemany"}
IsInsert(e) == e.ev = "executemany" /\ e.kind = "INSERT"
IsUpdate(e) == e.ev = "executemany" /\ e.kind = "UPDATE"
IsSelect(e) == e.ev = "execute" /\ e.kind = "SELECT"
IsCommit(e) == e.ev = "commit"
Statements == {j \in 1..Len(trace) : IsStmt(trace[j])}
Inserts == {j \in 1..Len(trace) : IsInsert(trace[j])}
Updates == {j \in 1..Len(trace) : IsUpdate(trace[j])}
Commits == {j \in 1..Len(trace) : IsCommit(trace[j])}
Only(S) == CHOOSE j \in S : TRUE
BatchIdx == 1..Len(batch)

\* the key set of the call: the names of keys that are fields, the primary
\* key when keys is empty
CallKeys == (IF keys = {} THEN {"id"} ELSE keys) \cap {"id", "email", "name"}
SameKey(x, y) == \A f \in CallKeys : x[f] = y[f]
\* the key tuple of batch[i] was in the table when the call started
WasPresent(i) == \E r \in 1..Len(pre) : SameKey(pre[r], batch[i])
IsPresent(i) == \E r \in 1..Len(rows) : SameKey(rows[r], batch[i])

\* ---------------------------------------------------------------- claims

\* C4 (insert completeness): a successful insert_many of N >= 1 objects hands
\* the cursor exactly one statement, an INSERT with N parameter tuples, the
\* j-th holding (email, name) of the j-th object, and afterwards the table is
\* the table as it was followed by N new rows carrying those values.
C4_InsertCompleteness ==
    (op = "insert_many" /\ batch # <<>> /\ outcome = "ok") =>
        /\ Cardinality(Statements) = 1
        /\ Cardinality(Inserts) = 1
        /\ LET ps == trace[Only(Inserts)].params
           IN  /\ Len(ps) = Len(batch)
               /\ \A j \in BatchIdx : ps[j] = <<batch[j].email, batch[j].name>>
        /\ Len(rows) = Len(pre) + Len(batch)
        /\ \A r \in 1..Len(pre) : rows[r] = pre[r]
        /\ \A j \in BatchIdx :
              /\ rows[Len(pre) + j].email = batch[j].email
              /\ rows[Len(pre) + j].name = batch[j].name

C4_Witness ==
    /\ op = "insert_many"
    /\ outcome = "ok"
    /\ Len(batch) = 2
    /\ batch[1] # batch[2]

\* C5 (update targeting): update_many changes only rows whose key columns
\* equal the key tuple of some object of the batch, changes no key column and
\* no auto-generated column of any row, and leaves the number of rows as it was.
C5_UpdateTargeting ==
    (op = "update_many") =>
        /\ Len(rows) = Len(pre)
        /\ \A r \in 1..Len(pre) :
              /\ rows[r] # pre[r] => \E i \in BatchIdx : SameKey(pre[r], batch[i])
              /\ \A f \in CallKeys \cup {"id"} : rows[r][f] = pre[r][f]

C5_Witness ==
    /\ op = "update_many"
    /\ outcome = "ok"
    /\ \E r, q \in 1..Len(pre) : rows[r] # pre[r] /\ rows[q] = pre[q]

\* C6 (empty-batch no-op), as claimed: a call of any of the three functions
\* with no objects does nothing to the store at all, no statement and no
\* commit, leaves the table as it was and returns.
C6_Original ==
    (op # "none" /\ batch = <<>>) =>
        /\ trace = <<>>
        /\ rows = pre
        /\ outcome = "ok"

\* C6, amended: a call with no objects hands the cursor no statement, leaves
\* the table as it was and returns; insert_or_update_many does nothing else,
\* while insert_many and update_many still reach commit_unless_managed, which
\* commits exactly when no caller-managed transaction is open.
C6_EmptyBatch ==
    (op # "none" /\ batch = <<>>) =>
        /\ Statements = {}
        /\ rows = pre
        /\ outcome = "ok"
        /\ op = "insert_or_update_many" => trace = <<>>
        /\ op \in {"insert_many", "update_many"} =>
              trace = IF managed THEN <<>> ELSE <<Ev("commit", 0, "", <<>>)>>

C6_Witness ==
    /\ op = "update_many"
    /\ batch = <<>>
    /\ ~managed
    /\ pre # <<>>
    /\ keys = {"bogus"}

\* ------------------------------------------------------------- presave
Presaves(i) == {j \in 1..Len(trace) : trace[j].ev = "presave" /\ trace[j].obj = i}
Extracts(i) == {j \in 1..Len(trace) : trace[j].ev = "extract" /\ trace[j].obj = i}
\* batch[i] is the latest object of the batch with its key tuple
LatestOfKey(i) == \A j \in BatchIdx : (j > i) => ~SameKey(batch[j], batch[i])

\* C7 (presave once per object), as claimed: in a call of any of the three
\* functions that completes presave() runs exactly once for every object that has it, before
\* any value of the object is extracted.
C7_Original ==
    (op # "none" /\ hasPresave /\ outcome = "ok") =>
        \A i \in BatchIdx :
            /\ Cardinality(Presaves(i)) = 1
            /\ \A p \in Presaves(i), x \in Extracts(i) : p < x

\* C7, amended: presave() runs once per extraction of the object's values,
\* immediately before it.  That is once per object in an insert_many or
\* update_many that gets past its key check; in a successful
\* insert_or_update_many it is once for an object whose key exists when
\* skip_update is set and twice when it is not, twice for an object to insert
\* that deduplication drops, and three times for an object that is inserted.
C7_PresavePerExtraction ==
    (op # "none" /\ hasPresave) =>
        /\ \A j \in 1..Len(trace) :
              /\ trace[j].ev = "extract" =>
                    j > 1 /\ trace[j - 1].ev = "presave" /\ trace[j - 1].obj = trace[j].obj
              /\ trace[j].ev = "presave" =>
                    j < Len(trace) /\ trace[j + 1].ev = "extract"
                        /\ trace[j + 1].obj = trace[j].obj
        /\ (op \in {"insert_many", "update_many"} /\ outcome # "AssertionError") =>
              \A i \in BatchIdx : Cardinality(Presaves(i)) = 1
        /\ (op = "insert_or_update_many" /\ outcome = "ok") =>
              \A i \in BatchIdx :
                  Cardinality(Presaves(i)) =
                      IF WasPresent(i) THEN (IF skip THEN 1 ELSE 2)
                      ELSE IF LatestOfKey(i) THEN 3 ELSE 2

C7_Witness ==
    /\ op = "insert_or_update_many"
    /\ hasPresave
    /\ outcome = "ok"
    /\ Len(batch) = 2
    /\ Cardinality(Presaves(1)) = 2
    /\ Cardinality(Presaves(2)) = 3

\* ------------------------------------------------------------- commits
HasUpdateCandidate == \E i \in BatchIdx : WasPresent(i)
HasInsertCandidate == \E i \in BatchIdx : ~WasPresent(i)
MixedUpsert ==
    /\ op = "insert_or_update_many"
    /\ ~skip
    /\ CallKeys # {}
    /\ HasUpdateCandidate
    /\ HasInsertCandidate

\* C8 (commit boundaries of insert_or_update_many), as claimed: outside a
\* caller-managed transaction a call with objects to update and objects to
\* insert commits once after the UPDATE and before the INSERT, and once more
\* after the INSERT, so that a failing INSERT leaves the updates committed;
\* inside a caller-managed transaction it never commits.
C8_Original ==
    /\ (MixedUpsert /\ ~managed /\ outcome = "ok") =>
          /\ Cardinality(Commits) = 2
          /\ \E u \in Updates, k \in Commits, n \in Inserts : u < k /\ k < n
          /\ \E n \in Inserts, k \in Commits : n < k
    /\ (op = "insert_or_update_many" /\ managed) => Commits = {}

\* C8, amended: outside a caller-managed transaction a successful
\* insert_or_update_many with objects commits exactly once, as its last step,
\* after the INSERT; nothing is committed between the UPDATE and the INSERT,
\* and a call that fails commits nothing, so the committed table is as it was.
\* Inside a caller-managed transaction it never commits.
C8_CommitBoundaries ==
    (op = "insert_or_update_many" /\ batch # <<>>) =>
        /\ managed => Commits = {}
        /\ (~managed /\ outcome = "ok") =>
              /\ Commits = {Len(trace)}
              /\ \A j \in Statements : j < Len(trace)
              /\ committed = rows
        /\ (~managed /\ outcome # "ok") =>
              /\ Commits = {}
              /\ committed = pre

C8_Witness ==
    /\ MixedUpsert
    /\ ~managed
    /\ outcome = "ok"
    /\ \E u \in Updates, n \in Inserts : u < n /\ trace[u].params # <<>> /\ trace[n].params # <<>>

\* C9 (no statement for an empty sub-batch): in a call of
\* insert_or_update_many with objects every INSERT or UPDATE handed to the
\* cursor has at least one parameter tuple: no INSERT when every key exists,
\* no UPDATE when no key exists or skip_update is set.
C9_NoEmptyStatement ==
    (op = "insert_or_update_many" /\ batch # <<>>) =>
        /\ \A j \in Inserts \cup Updates : trace[j].params # <<>>
        /\ (\A i \in BatchIdx : WasPresent(i)) => Inserts = {}
        /\ ((\A i \in BatchIdx : ~WasPresent(i)) \/ skip) => Updates = {}

\* ------------------------------------------------ insert_or_update_many
SelectPos == Only({j \in 1..Len(trace) : IsSelect(trace[j])})
AnyExtract == {j \in 1..Len(trace) : trace[j].ev = "extract"}
\* the objects whose values are extracted for the UPDATE
SentToUpdate ==
    IF Updates = {} THEN {}
    ELSE {trace[j].obj : j \in {k \in AnyExtract : SelectPos < k /\ k < Only(Updates)}}
\* the objects the deduplicator is given: those read after the SELECT and the
\* UPDATE, before the INSERT
SentToInsert ==
    IF Inserts = {} THEN {}
    ELSE {trace[j].obj : j \in {k \in AnyExtract :
              /\ SelectPos < k
              /\ \A u \in Updates : u < k
              /\ k < Only(Inserts)}}
Values(o) == <<o.email, o.name>>
UpsertDone ==
    /\ op = "insert_or_update_many"
    /\ batch # <<>>
    /\ CallKeys # {}
    /\ outcome = "ok"
Partitioned ==
    /\ SentToUpdate = {i \in BatchIdx : WasPresent(i)}
    /\ SentToInsert = {i \in BatchIdx : ~WasPresent(i)}
    /\ \A i \in SentToUpdate, j \in SentToInsert : ~SameKey(batch[i], batch[j])

\* C1 (upsert partition invariant), as claimed: for every key set, after a
\* successful insert_or_update_many without skip_update the key tuple of every
\* object is in the table, an object goes to the UPDATE iff the SELECT found
\* its key tuple and to the deduplicator iff it did not, and no key tuple is
\* both updated and inserted.
C1_Original ==
    (UpsertDone /\ ~skip) =>
        /\ \A i \in BatchIdx : IsPresent(i)
        /\ Partitioned

\* C1, amended: the partition holds for every key set; the key tuple of every
\* object is in the table afterwards when the key set holds no auto-generated
\* field (an INSERT never writes the id, the table generates it).
C1_UpsertPartition ==
    (UpsertDone /\ ~skip) =>
        /\ ("id" \notin CallKeys) => \A i \in BatchIdx : IsPresent(i)
        /\ Partitioned

C1_Witness ==
    /\ UpsertDone
    /\ ~skip
    /\ "id" \notin CallKeys
    /\ \E i, j \in BatchIdx : WasPresent(i) /\ ~WasPresent(j)
    /\ rows # pre

\* C2 (dedup determinism): the INSERT of insert_or_update_many carries one
\* parameter tuple per distinct key tuple among the objects to insert, each
\* holding the values of the latest object of the batch with that key tuple;
\* on an empty table two objects sharing their key tuple leave one row, with
\* the values of the second.
C2_DedupLatestWins ==
    UpsertDone =>
        LET cand   == {i \in BatchIdx : ~WasPresent(i)}
            latest == {i \in cand : LatestOfKey(i)}
            ps     == trace[Only(Inserts)].params
        IN  /\ Cardinality(Inserts) = 1
            /\ Len(ps) = Cardinality(latest)
            /\ \A k \in 1..Len(ps) : \E i \in latest : ps[k] = Values(batch[i])
            /\ \A i \in latest : \E k \in 1..Len(ps) : ps[k] = Values(batch[i])
            /\ (pre = <<>> /\ Len(batch) = 2 /\ SameKey(batch[1], batch[2])) =>
                  /\ Len(rows) = 1
                  /\ Values(rows[1]) = Values(batch[2])

C2_Witness ==
    /\ UpsertDone
    /\ pre = <<>>
    /\ Len(batch) = 2
    /\ SameKey(batch[1], batch[2])
    /\ batch[1].name # batch[2].name
    /\ Len(rows) = 1

\* C3 (idempotence), as claimed: for every key set and either skip_update, the
\* same insert_or_update_many made a second time leaves the table as the first
\* left it, inserts no row and finds the key tuple of every object: all N are
\* updated, or skipped under skip_update.
SecondRun ==
    /\ outcome = "ok"
    /\ rows = pre
    /\ \A j \in Inserts : trace[j].params = <<>>
    /\ \A i \in BatchIdx : WasPresent(i)
    /\ IF skip \/ batch = <<>> THEN Updates = {}
       ELSE Cardinality(Updates) = 1 /\ Len(trace[Only(Updates)].params) = Len(batch)

AbsentAtStart(e) == \A p \in Procs : \E j \in 1..Len(procs[p].ins) : EmailOf(procs[p].ins[j]) = e

\* C10 (check-then-insert race): whatever the interleaving of two concurrent
\* insert_or_update_many calls on a table with the unique constraint, the
\* table never holds two rows with the same email, and a call whose INSERT hits
\* the constraint ends with DatabaseError, keeps nothing of its own work and
\* hands the store nothing more: no retry, no update in place of the insert.
C10_RaceSurfacesError ==
    /\ UniqueOk(committed)
    /\ \A p \in Procs :
          procs[p].hit =>
              /\ procs[p].pc = "failed"
              /\ procs[p].outcome = "DatabaseError"
              /\ procs[p].sent = procs[p].sentAtHit
              /\ procs[p].pu = {} /\ procs[p].pi = <<>>

C10_Witness ==
    /\ procs # <<>>
    /\ \E p \in Procs :
          /\ procs[p].hit
          /\ procs[Other(p)].pc = "done"
          /\ \E e \in Emails :
                /\ AbsentAtStart(e)
                /\ Cardinality({r \in 1..Len(committed) : committed[r].email = e}) = 1

====
